---- MODULE Spec2Model ----
(***************************************************************************)
(* Model of docs/how_tos/use_oo_to_optimize_hamiltonian_basis.ipynb:       *)
(* the self-consistent configuration recovery loop (cell 4), the choice of *)
(* the best batch (cell 5) and the orbital optimization call (cell 6).     *)
(*                                                                         *)
(* The library routines the notebook calls (recover_configurations,        *)
(* postselect_and_subsample, solve_fermion, bitstring_matrix_to_ci_strs,   *)
(* optimize_orbitals) are not among the source files; they are modelled    *)
(* from their documented contracts, and every random draw and every        *)
(* eigensolver result is a nondeterministic choice from a small set.       *)
(***************************************************************************)
EXTENDS Integers, Sequences, FiniteSets

\* ------------------------------------------------------------------ bounds
\* Scaled-down values of the notebook's parameters.
num_orbitals == 2
iterations == 3
n_batches == 2
samples_per_batch == 1
\* Rows of the sampled bitstring table, largest count of one bitstring, and
\* the most bits in which a sample differs from the reference configuration.
TableLen == 2
MaxCount == 1
MaxNoise == 1
\* Distinct results the eigensolver may return for a batch.
NumOutcomes == 2
\* Largest magnitude of an entry of k_flat (in units of the scale 0.01 / 2).
MaxKappa == 1
nuclear_repulsion_energy == 1

\* ------------------------------------------------------------------ values
None == <<>>

num_params == num_orbitals * num_orbitals

Bits == {0, 1}

Bitstrings == [1..(2 * num_orbitals) -> Bits]

RECURSIVE SumSeq(_)
SumSeq(s) == IF s = <<>> THEN 0 ELSE Head(s) + SumSeq(Tail(s))

\* The first (left) and the second (right) half of a bitstring.
LeftHalf(bs) == SubSeq(bs, 1, num_orbitals)
RightHalf(bs) == SubSeq(bs, num_orbitals + 1, 2 * num_orbitals)

HammingWeight(half) == SumSeq(half)

Zeros(n) == [k \in 1..n |-> 0]

\* np.zeros((iterations, n_batches))
ZeroMatrix(r, c) == [a \in 1..r |-> Zeros(c)]

VARIABLES
    num_elec_a, num_elec_b,            \* target electron counts (alpha, beta)
    bitstring_matrix_full, probs_arr_full,
    orig_matrix, orig_probs,           \* the table as counts_to_arrays returned it
    rng,                               \* draws taken from the seeded generator
    e_hist, s_hist, occupancy_hist, avg_occupancy,
    i, j,                              \* loop counters (0-based i, 1-based j)
    bs_mat_tmp, probs_arr_tmp,
    rec_args,                          \* arguments of the last recover_configurations call
    batches, sol,                      \* sol[b]: what solve_fermion yields for batches[b]
    int_e, int_s, int_occs, cs,
    best_batch, ci_strs_up, ci_strs_dn,
    k_flat, e_improved, orbital_occupancies,
    pc, fail

vars == << num_elec_a, num_elec_b, bitstring_matrix_full, probs_arr_full,
           orig_matrix, orig_probs, rng, e_hist, s_hist, occupancy_hist,
           avg_occupancy, i, j, bs_mat_tmp, probs_arr_tmp, rec_args, batches,
           sol, int_e, int_s, int_occs, cs, best_batch, ci_strs_up,
           ci_strs_dn, k_flat, e_improved, orbital_occupancies, pc, fail >>

\* ---------------------------------------------------------- collaborators

\* The value of a bit pattern, most significant bit first.
RECURSIVE BitsValue(_)
BitsValue(s) ==
    IF s = <<>> THEN 0 ELSE 2 * BitsValue(SubSeq(s, 1, Len(s) - 1)) + s[Len(s)]

\* The configuration with one electron in the lowest orbital of each half.
Reference ==
    [k \in 1..(2 * num_orbitals) |->
        IF k = num_orbitals \/ k = 2 * num_orbitals THEN 1 ELSE 0]

HammingDistance(x, y) == Cardinality({k \in 1..Len(x) : x[k] # y[k]})

\* generate_counts_uniform: the bitstrings a run samples, here those within
\* MaxNoise bit flips of the reference.
SampleSpace == {bs \in Bitstrings : HammingDistance(bs, Reference) <= MaxNoise}

\* counts_to_arrays: one row per distinct sampled bitstring, with its count.

Tables == {t \in [1..TableLen -> SampleSpace] :
              \A a, b \in 1..TableLen : a < b => BitsValue(t[a]) < BitsValue(t[b])}

\* solve_fermion's result for a batch: it converges to an energy (of a bound
\* state: the total energy is negative), a coefficient vector, per-orbital
\* occupancies and a spin, or fails.
Outcome(o) ==
    [conv |-> TRUE, e |-> -(nuclear_repulsion_energy + o), s |-> o - 1, c |-> o,
     occ |-> [k \in 1..num_orbitals |-> (o + k) % 2]]

NoConvergence ==
    [conv |-> FALSE, e |-> 0, s |-> 0, c |-> 0, occ |-> Zeros(num_orbitals)]

SolverOutcomes == {Outcome(o) : o \in 1..NumOutcomes} \cup {NoConvergence}

\* recover_configurations on one half: bits are flipped only in the direction
\* of the target weight and never past it.
RecoverHalf(half, target) ==
    LET w == HammingWeight(half)
    IN  {h \in [1..num_orbitals -> Bits] :
            /\ w >= target => /\ \A k \in 1..num_orbitals : h[k] <= half[k]
                              /\ HammingWeight(h) >= target
            /\ w <= target => /\ \A k \in 1..num_orbitals : h[k] >= half[k]
                              /\ HammingWeight(h) <= target}

RecoverRow(bs, n_a, n_b) ==
    {l \o r : l \in RecoverHalf(LeftHalf(bs), n_b),
              r \in RecoverHalf(RightHalf(bs), n_a)}

\* recover_configurations(bitstring_matrix, probabilities, avg_occupancy,
\* num_elec_a, num_elec_b, rand_seed): the corrected tables it may return.
RECURSIVE recover_configurations(_, _, _, _, _)
recover_configurations(mat, probs, occ, n_a, n_b) ==
    IF mat = <<>>
    THEN {<<>>}
    ELSE {<<r>> \o t : r \in RecoverRow(Head(mat), n_a, n_b),
                       t \in recover_configurations(Tail(mat), probs, occ, n_a, n_b)}

\* Postselection: the rows whose right half has weight hamming_right and
\* whose left half has weight hamming_left.
postselect(mat, probs, hamming_right, hamming_left) ==
    {k \in 1..Len(mat) :
        /\ HammingWeight(RightHalf(mat[k])) = hamming_right
        /\ HammingWeight(LeftHalf(mat[k])) = hamming_left}

\* Subsampling: every batch is samples_per_batch draws from the postselected
\* rows (those of positive weight).
subsample(mat, probs, pool) ==
    LET drawn == {k \in pool : probs[k] > 0}
    IN  {[b \in 1..n_batches |-> [n \in 1..samples_per_batch |-> mat[d[b][n]]]] :
            d \in [1..n_batches -> [1..samples_per_batch -> drawn]]}

\* bitstring_matrix_to_ci_strs: the distinct half patterns of a batch.
CiStrsUp(batch) == {RightHalf(batch[k]) : k \in 1..Len(batch)}
CiStrsDn(batch) == {LeftHalf(batch[k]) : k \in 1..Len(batch)}

\* ------------------------------------------------------------ the notebook

\* np.mean(int_occs, axis=0): per orbital, the sum over the list and the
\* number of entries it is divided by.
RECURSIVE SumOcc(_, _)
SumOcc(occs, k) ==
    IF occs = <<>> THEN 0 ELSE Head(occs)[k] + SumOcc(Tail(occs), k)

Mean(occs) == [k \in 1..num_orbitals |-> <<SumOcc(occs, k), Len(occs)>>]

\* np.argmin: the first index of the least entry.
ArgMin(row) ==
    CHOOSE a \in 1..Len(row) :
        /\ \A b \in 1..Len(row) : row[a] <= row[b]
        /\ \A b \in 1..(a - 1) : row[b] > row[a]

\* Arguments of the postselect_and_subsample call: hamming_right=num_elec_a,
\* hamming_left=num_elec_b.
HammingRight_Swapped == num_elec_b
HammingRight == num_elec_a
HammingLeft == num_elec_b

\* First argument of the recover_configurations call.
RecoverInput_Previous == bs_mat_tmp
RecoverInput == bitstring_matrix_full

\* Third argument of the recover_configurations call.
RecoverOccupancy_Stale == occupancy_hist[1]
RecoverOccupancy == avg_occupancy

Init ==
    /\ num_elec_a \in 1..num_orbitals
    /\ num_elec_b \in 1..num_elec_a
    /\ bitstring_matrix_full \in Tables
    /\ probs_arr_full \in [1..TableLen -> 1..MaxCount]
    /\ orig_matrix = bitstring_matrix_full
    /\ orig_probs = probs_arr_full
    /\ rng = 2
    /\ e_hist = ZeroMatrix(iterations, n_batches)
    /\ s_hist = ZeroMatrix(iterations, n_batches)
    /\ occupancy_hist = <<>>
    /\ avg_occupancy = None
    /\ i = 0
    /\ j = 1
    /\ bs_mat_tmp = None
    /\ probs_arr_tmp = None
    /\ rec_args = None
    /\ batches = None
    /\ sol = None
    /\ int_e = None
    /\ int_s = None
    /\ int_occs = None
    /\ cs = None
    /\ best_batch = None
    /\ ci_strs_up = {}
    /\ ci_strs_dn = {}
    /\ k_flat = None
    /\ e_improved = None
    /\ orbital_occupancies = None
    /\ pc = "Recover"
    /\ fail = "none"

\* if avg_occupancy is None: ... else: recover_configurations(...)
Recover ==
    /\ pc = "Recover"
    /\ IF avg_occupancy = None
       THEN /\ bs_mat_tmp' = bitstring_matrix_full
            /\ probs_arr_tmp' = probs_arr_full
            /\ UNCHANGED << rec_args, rng >>
       ELSE /\ bs_mat_tmp' \in recover_configurations(RecoverInput,
                    probs_arr_full, RecoverOccupancy, num_elec_a, num_elec_b)
            /\ probs_arr_tmp' = probs_arr_full
            /\ rec_args' = [bs |-> RecoverInput, probs |-> probs_arr_full,
                            occ |-> RecoverOccupancy, round |-> i]
            /\ rng' = rng + 1
    /\ pc' = "Postselect"
    /\ UNCHANGED << num_elec_a, num_elec_b, bitstring_matrix_full,
                    probs_arr_full, orig_matrix, orig_probs, e_hist, s_hist,
                    occupancy_hist, avg_occupancy, i, j, batches, sol, int_e,
                    int_s, int_occs, cs, best_batch, ci_strs_up, ci_strs_dn,
                    k_flat, e_improved, orbital_occupancies, fail >>

\* batches = postselect_and_subsample(...); int_e = np.zeros(n_batches) ...
Postselect ==
    /\ pc = "Postselect"
    /\ LET pool == postselect(bs_mat_tmp, probs_arr_tmp, HammingRight, HammingLeft)
       IN  IF pool = {}
           THEN /\ pc' = "Failed"
                /\ fail' = "empty"
                /\ UNCHANGED << batches, sol, int_e, int_s, int_occs, cs, j, rng >>
           ELSE /\ batches' \in subsample(bs_mat_tmp, probs_arr_tmp, pool)
                /\ sol' \in [1..n_batches -> SolverOutcomes]
                /\ int_e' = Zeros(n_batches)
                /\ int_s' = Zeros(n_batches)
                /\ int_occs' = <<>>
                /\ cs' = <<>>
                /\ j' = 1
                /\ rng' = rng + 1
                /\ pc' = "Solve"
                /\ UNCHANGED fail
    /\ UNCHANGED << num_elec_a, num_elec_b, bitstring_matrix_full,
                    probs_arr_full, orig_matrix, orig_probs, e_hist, s_hist,
                    occupancy_hist, avg_occupancy, i, bs_mat_tmp,
                    probs_arr_tmp, rec_args, best_batch, ci_strs_up,
                    ci_strs_dn, k_flat, e_improved, orbital_occupancies >>

\* The loop body with the energy and the spin stored at the position of the
\* next free slot instead of at the batch's index.
SolveStep_BySlot(acc, b) ==
    [int_e    |-> [acc.int_e EXCEPT ![Len(acc.int_occs) + 1] =
                      sol[b].e + nuclear_repulsion_energy],
     int_s    |-> [acc.int_s EXCEPT ![Len(acc.int_occs) + 1] = sol[b].s],
     int_occs |-> Append(acc.int_occs, sol[b].occ),
     cs       |-> Append(acc.cs, sol[b].c)]

\* The body of "for j in range(n_batches)" for a batch whose solve returns.
SolveStep(acc, b) ==
    [int_e    |-> [acc.int_e EXCEPT ![b] = sol[b].e + nuclear_repulsion_energy],
     int_s    |-> [acc.int_s EXCEPT ![b] = sol[b].s],
     int_occs |-> Append(acc.int_occs, sol[b].occ),
     cs       |-> Append(acc.cs, sol[b].c)]

\* The batch loop with a failed solve skipped instead of raised.
SolveBatch_Swallow ==
    /\ pc = "Solve"
    /\ IF sol[j].conv
       THEN LET r == SolveStep([int_e |-> int_e, int_s |-> int_s,
                                int_occs |-> int_occs, cs |-> cs], j)
            IN  /\ int_e' = r.int_e
                /\ int_s' = r.int_s
                /\ int_occs' = r.int_occs
                /\ cs' = r.cs
       ELSE UNCHANGED << int_e, int_s, int_occs, cs >>
    /\ j' = j + 1
    /\ pc' = IF j = n_batches THEN "Aggregate" ELSE "Solve"
    /\ UNCHANGED << num_elec_a, num_elec_b, bitstring_matrix_full,
                    probs_arr_full, orig_matrix, orig_probs, rng, e_hist,
                    s_hist, occupancy_hist, avg_occupancy, i, bs_mat_tmp,
                    probs_arr_tmp, rec_args, batches, sol, best_batch,
                    ci_strs_up, ci_strs_dn, k_flat, e_improved,
                    orbital_occupancies, fail >>

\* One pass of the batch loop: solve_fermion returns and the result is
\* recorded, or it raises and the exception leaves the cell.
SolveBatch ==
    /\ pc = "Solve"
    /\ IF sol[j].conv
       THEN LET r == SolveStep([int_e |-> int_e, int_s |-> int_s,
                                int_occs |-> int_occs, cs |-> cs], j)
            IN  /\ int_e' = r.int_e
                /\ int_s' = r.int_s
                /\ int_occs' = r.int_occs
                /\ cs' = r.cs
                /\ j' = j + 1
                /\ pc' = IF j = n_batches THEN "Aggregate" ELSE "Solve"
                /\ UNCHANGED fail
       ELSE /\ pc' = "Failed"
            /\ fail' = "solve"
            /\ UNCHANGED << int_e, int_s, int_occs, cs, j >>
    /\ UNCHANGED << num_elec_a, num_elec_b, bitstring_matrix_full,
                    probs_arr_full, orig_matrix, orig_probs, rng, e_hist,
                    s_hist, occupancy_hist, avg_occupancy, i, bs_mat_tmp,
                    probs_arr_tmp, rec_args, batches, sol, best_batch,
                    ci_strs_up, ci_strs_dn, k_flat, e_improved,
                    orbital_occupancies >>

\* The row of e_hist and s_hist that round i writes: e_hist[i, :] (rows are
\* numbered from 1 here).
HistRow_Last == Len(e_hist)
HistRow == i + 1

\* The value of i in the next pass of "for i in range(iterations)".
NextRound_Skip == i + 2
NextRound == i + 1

\* avg_occupancy = tuple(np.mean(int_occs, axis=0)); e_hist[i, :] = int_e;
\* s_hist[i, :] = int_s; occupancy_hist.append(avg_occupancy); next i.
Aggregate ==
    /\ pc = "Aggregate"
    /\ avg_occupancy' = Mean(int_occs)
    /\ e_hist' = [e_hist EXCEPT ![HistRow] = int_e]
    /\ s_hist' = [s_hist EXCEPT ![HistRow] = int_s]
    /\ occupancy_hist' = Append(occupancy_hist, avg_occupancy')
    /\ i' = NextRound
    /\ pc' = IF i' < iterations THEN "Recover" ELSE "Refine"
    /\ UNCHANGED << num_elec_a, num_elec_b, bitstring_matrix_full,
                    probs_arr_full, orig_matrix, orig_probs, rng, j,
                    bs_mat_tmp, probs_arr_tmp, rec_args, batches, sol, int_e,
                    int_s, int_occs, cs, best_batch, ci_strs_up, ci_strs_dn,
                    k_flat, e_improved, orbital_occupancies, fail >>

\* The row of e_hist the best batch is chosen by: e_hist[-1].
SelectionRow_FirstRound == e_hist[1]
SelectionRow == e_hist[Len(e_hist)]

\* best_batch = batches[np.argmin(e_hist[-1])]; ci_strs_up, ci_strs_dn = ...
Refine ==
    /\ pc = "Refine"
    /\ best_batch' = batches[ArgMin(SelectionRow)]
    /\ ci_strs_up' = CiStrsUp(best_batch')
    /\ ci_strs_dn' = CiStrsDn(best_batch')
    /\ pc' = "CreateK"
    /\ UNCHANGED << num_elec_a, num_elec_b, bitstring_matrix_full,
                    probs_arr_full, orig_matrix, orig_probs, rng, e_hist,
                    s_hist, occupancy_hist, avg_occupancy, i, j, bs_mat_tmp,
                    probs_arr_tmp, rec_args, batches, sol, int_e, int_s,
                    int_occs, cs, k_flat, e_improved, orbital_occupancies,
                    fail >>

\* k_flat = (rng.random(num_params) - 0.5) * 0.01
KappaDraws == [1..num_params -> {-MaxKappa, MaxKappa}]

CreateK ==
    /\ pc = "CreateK"
    /\ k_flat' \in KappaDraws
    /\ rng' = rng + 1
    /\ pc' = "Optimize"
    /\ UNCHANGED << num_elec_a, num_elec_b, bitstring_matrix_full,
                    probs_arr_full, orig_matrix, orig_probs, e_hist, s_hist,
                    occupancy_hist, avg_occupancy, i, j, bs_mat_tmp,
                    probs_arr_tmp, rec_args, batches, sol, int_e, int_s,
                    int_occs, cs, best_batch, ci_strs_up, ci_strs_dn,
                    e_improved, orbital_occupancies, fail >>

\* Entry (p, q) of a flat num_orbitals x num_orbitals array.
At(k, p, q) == k[(p - 1) * num_orbitals + q]

\* Twice the anti-symmetric part of a flat square array.
SkewPart(k) ==
    [n \in 1..num_params |->
        LET p == ((n - 1) \div num_orbitals) + 1
            q == ((n - 1) % num_orbitals) + 1
        IN  At(k, p, q) - At(k, q, p)]

\* e_improved, k_flat, orbital_occupancies = optimize_orbitals(best_batch, ...)
\* : the optimizer returns an energy, a re-skew-symmetrized generator and
\* occupancies, or its eigensolve fails.
Optimize ==
    /\ pc = "Optimize"
    /\ \E out \in SolverOutcomes, k \in {SkewPart(g) : g \in KappaDraws} :
          IF out.conv
          THEN /\ e_improved' = << out.e >>
               /\ k_flat' = k
               /\ orbital_occupancies' = out.occ
               /\ pc' = "Done"
               /\ UNCHANGED fail
          ELSE /\ pc' = "Failed"
               /\ fail' = "optimize"
               /\ UNCHANGED << e_improved, k_flat, orbital_occupancies >>
    /\ UNCHANGED << num_elec_a, num_elec_b, bitstring_matrix_full,
                    probs_arr_full, orig_matrix, orig_probs, rng, e_hist,
                    s_hist, occupancy_hist, avg_occupancy, i, j, bs_mat_tmp,
                    probs_arr_tmp, rec_args, batches, sol, int_e, int_s,
                    int_occs, cs, best_batch, ci_strs_up, ci_strs_dn >>

Next ==
    \/ Recover
    \/ Postselect
    \/ SolveBatch
    \/ Aggregate
    \/ Refine
    \/ CreateK
    \/ Optimize

Spec == Init /\ [][Next]_vars

\* The notebook is one sequential program: it takes its next step whenever
\* it has one.
FairSpec == Spec /\ WF_vars(Next)

\* ------------------------------------------------------------- properties

LoopStates == {"Recover", "Postselect", "Solve", "Aggregate"}
AfterLoop == {"Refine", "CreateK", "Optimize", "Done"}

\* The loop has left its last round (possibly failing later, in the
\* optimizer).
LoopDone == pc \in AfterLoop \/ (pc = "Failed" /\ fail = "optimize")

\* Round i has passed its recovery step.
AfterRecover ==
    \/ pc \in {"Postselect", "Solve", "Aggregate"}
    \/ (pc = "Failed" /\ fail \in {"empty", "solve"})

\* sol describes the batches of the round that is being solved or has just
\* been solved.
AllFail == sol # None /\ \A b \in 1..n_batches : ~sol[b].conv
PartialFail ==
    /\ sol # None
    /\ \E b \in 1..n_batches : ~sol[b].conv
    /\ \E b \in 1..n_batches : sol[b].conv

\* The occupancies of the converged batches, in index order.
RECURSIVE ConvergedOccs(_)
ConvergedOccs(b) ==
    IF b > n_batches THEN <<>>
    ELSE (IF sol[b].conv THEN <<sol[b].occ>> ELSE <<>>) \o ConvergedOccs(b + 1)

C2_OccupancyFlow ==
    AfterRecover =>
        IF i = 0
        THEN /\ bs_mat_tmp = orig_matrix
             /\ probs_arr_tmp = orig_probs
             /\ rec_args = None
        ELSE /\ rec_args # None
             /\ rec_args.round = i
             /\ Len(occupancy_hist) = i
             /\ rec_args.occ = occupancy_hist[i]
             /\ (pc = "Postselect" =>
                    rec_args.occ = Mean([b \in 1..n_batches |-> sol[b].occ]))

\* Round 2 has recovered, and rounds 0 and 1 aggregated different occupancies.
C2_Witness ==
    /\ pc = "Postselect"
    /\ i = 2
    /\ rec_args # None
    /\ occupancy_hist[1] # occupancy_hist[2]

\* C3 (as stated): when some but not all batches of a round fail, the round
\* does not fail, and the occupancy it aggregates is the mean over the
\* converged batches.
C3_PartialFailureProceeds ==
    PartialFail =>
        /\ ~(pc = "Failed" /\ fail = "solve")
        /\ (pc \in {"Recover", "Refine"} =>
               avg_occupancy = Mean(ConvergedOccs(1)))

\* C4: once a batch of a round in which every eigensolve fails has been
\* attempted, the run has failed: nothing was aggregated for the round, no
\* later round was started and no energy or best batch was produced.
C4_AllFailIsFatal ==
    AllFail =>
        \/ (pc = "Solve" /\ j = 1)
        \/ /\ pc = "Failed"
           /\ fail = "solve"
           /\ Len(occupancy_hist) = i
           /\ avg_occupancy = (IF i = 0 THEN None ELSE occupancy_hist[i])
           /\ e_hist[i + 1] = Zeros(n_batches)
           /\ s_hist[i + 1] = Zeros(n_batches)
           /\ best_batch = None
           /\ e_improved = None

\* A later round in which every eigensolve fails has ended the run.
C4_Witness == AllFail /\ pc = "Failed" /\ i >= 1

\* C5: a best batch exists only after the loop has ended, and it is a batch
\* of the final round whose recorded energy is the least of that round.
C5_BestBatch ==
    /\ pc \in LoopStates => best_batch = None
    /\ best_batch # None =>
          /\ LoopDone
          /\ i = iterations
          /\ \E b \in 1..n_batches :
                /\ best_batch = batches[b]
                /\ e_hist[iterations][b] = sol[b].e + nuclear_repulsion_energy
                /\ \A c \in 1..n_batches :
                      e_hist[iterations][b] <= e_hist[iterations][c]

\* The best batch was chosen among different batches, and the first round's
\* energies would have chosen another one.
C5_Witness ==
    /\ best_batch # None
    /\ batches[1] # batches[2]
    /\ ArgMin(e_hist[1]) # ArgMin(e_hist[iterations])

\* C6 (as stated): the rotation generator is anti-symmetric whenever it
\* exists, from its creation on.
C6_KappaAntisymmetric ==
    k_flat # None =>
        \A p, q \in 1..num_orbitals : At(k_flat, p, q) = -At(k_flat, q, p)

\* i counts the completed rounds: one occupancy has been aggregated per
\* completed round, the current occupancy is that of the last one, and the
\* loop is left only after the configured number of rounds.
C7_Order ==
    /\ Len(occupancy_hist) = i
    /\ avg_occupancy = (IF i = 0 THEN None ELSE occupancy_hist[i])
    /\ (pc \in LoopStates => i < iterations)
    /\ (LoopDone => i = iterations)

\* A step changes i only by completing the round: from the aggregation, by one.
C7_Step == i' # i => (pc = "Aggregate" /\ i' = i + 1)

C7_Terminated == pc = "Failed" \/ (pc = "Done" /\ i = iterations)

C8_OriginalUnchanged ==
    /\ bitstring_matrix_full = orig_matrix
    /\ probs_arr_full = orig_probs
    /\ rec_args # None =>
          /\ rec_args.bs = orig_matrix
          /\ rec_args.probs = orig_probs

\* Round 2 recovers after round 1 worked on a corrected table that differed
\* from the original.
C8_Witness ==
    /\ pc = "Recover"
    /\ i = 2
    /\ bs_mat_tmp # orig_matrix

\* The energy, spin and occupancy the last completed round recorded, while
\* sol still describes its batches.
C9_LastRound ==
    (i >= 1 /\ (pc \in {"Recover", "Postselect"} \/ pc \in AfterLoop)) =>
        /\ \A b \in 1..n_batches :
              /\ e_hist[i][b] = sol[b].e + nuclear_repulsion_energy
              /\ s_hist[i][b] = sol[b].s
        /\ occupancy_hist[i] = Mean([b \in 1..n_batches |-> sol[b].occ])

\* One energy and one spin per batch per round, rows of rounds not yet
\* completed still zero.
C9_Rows ==
    /\ Len(e_hist) = iterations
    /\ Len(s_hist) = iterations
    /\ \A r \in 1..iterations :
          /\ Len(e_hist[r]) = n_batches
          /\ Len(s_hist[r]) = n_batches
          /\ (r <= i => \A b \in 1..n_batches : e_hist[r][b] # 0)
          /\ (r > i => e_hist[r] = Zeros(n_batches) /\ s_hist[r] = Zeros(n_batches))

\* No step changes what a completed round recorded.
C9_Frame ==
    \A r \in 1..i :
        /\ e_hist'[r] = e_hist[r]
        /\ s_hist'[r] = s_hist[r]
        /\ occupancy_hist'[r] = occupancy_hist[r]

\* C9 (as stated): after i rounds the history holds an energy, a spin and an
\* occupancy record for each batch of each completed round.
C9_Original ==
    /\ C9_Rows
    /\ Len(occupancy_hist) = i * n_batches

\* C9 (amended): after i rounds the history holds an energy and a spin for
\* each batch of each completed round and one occupancy record per completed
\* round (the mean over its batches), and no later step changes a record of
\* a completed round.
C9_Amended ==
    /\ [](C9_Rows /\ C9_LastRound /\ Len(occupancy_hist) = i)
    /\ [][C9_Frame]_vars

\* Two rounds are recorded, with different energies.
C9_Witness ==
    /\ i = 2
    /\ pc = "Recover"
    /\ e_hist[1] # e_hist[2]

\* The orders in which the batches of a round can be solved.
BatchOrders ==
    {p \in [1..n_batches -> 1..n_batches] :
        \A a, b \in 1..n_batches : a # b => p[a] # p[b]}

\* The batch loop run in a given order: what it records, or that it raised.
RECURSIVE RunBatches(_, _, _)
RunBatches(acc, order, n) ==
    IF n > Len(order) THEN [ok |-> TRUE, acc |-> acc]
    ELSE IF ~sol[order[n]].conv THEN [ok |-> FALSE, acc |-> acc]
    ELSE RunBatches(SolveStep(acc, order[n]), order, n + 1)

RoundIn(order) ==
    RunBatches([int_e |-> Zeros(n_batches), int_s |-> Zeros(n_batches),
                int_occs |-> <<>>, cs |-> <<>>], order, 1)

C10_SameResult ==
    /\ pc = "Aggregate" =>
          \A p \in BatchOrders :
              /\ RoundIn(p).ok
              /\ RoundIn(p).acc.int_e = int_e
              /\ RoundIn(p).acc.int_s = int_s
              /\ Mean(RoundIn(p).acc.int_occs) = Mean(int_occs)
    /\ (pc = "Failed" /\ fail = "solve") =>
          \A p \in BatchOrders : ~RoundIn(p).ok

====
